---- MODULE Spec2Model ----
(***************************************************************************)
(* Verification model of opencode-webhooks.                                *)
(*                                                                         *)
(* Part 1: BatchHandler (src/src/batch-handler.ts), the per-destination    *)
(* rate limiter and queue, driven through WebhookPlugin.processWebhook and *)
(* WebhookPlugin.destroy (src/src/types.ts).                               *)
(*                                                                         *)
(* Time.  The handler reads the clock only to form differences now - ts,   *)
(* so every stored instant is kept as its age now - ts (milliseconds) and  *)
(* a timer as the milliseconds left until it is due.  Tick lets Step ms    *)
(* pass.  An age that has reached windowMs is kept at windowMs: the code   *)
(* only ever asks whether now - ts < windowMs.                             *)
(*                                                                         *)
(* Part 2: WebhookPlugin.handleEvent / processWebhook (src/src/types.ts)    *)
(* and WebhookClient.send / sendOnce (src/src/webhook-client.ts): one       *)
(* plugin with three destinations, the third rate-limited through the      *)
(* BatchHandler of part 1 (specification SpecDispatch).                    *)
(*                                                                         *)
(* Part 3: AgentCompletionMiddleware (src/src/middleware.ts), the          *)
(* per-session accumulator (specification SpecMiddleware), and its idle    *)
(* delay (specification SpecIdleDelay); the payload handleEvent builds     *)
(* (SpecPayload) and the plugin's index of batch handlers (SpecIndex).     *)
(*                                                                         *)
(* Concurrency.  JavaScript runs each handler to its next await without    *)
(* interruption, so one action is one such run: addEvent up to its await,  *)
(* a timer callback (flush) up to its await, the continuation of a flush   *)
(* pass after its awaited send completes, destroy.                         *)
(***************************************************************************)
EXTENDS Integers, Sequences, FiniteSets, TLC

\* ---------------------------------------------------------------- bounds
MaxEvents == 4          \* addEvent calls in one behaviour
MaxRequestsMax == 2     \* rateLimit.maxRequests ranges over 1..MaxRequestsMax
WindowMs == 150         \* rateLimit.windowMs of the rate-limited destination
Step == 50              \* milliseconds that pass in one Tick
\* the timestamp strings handleEvent may have stamped on a payload
Stamps == {"00:00:00.000Z", "00:00:01.000Z"}

\* ------------------------------------------------------ program constants
MinFlushDelayMs == 100  \* Math.max(timeUntilExpiry, 100)

Null == 0               \* flushTimer = null; handles are 1, 2, ...
\* config.rateLimit is undefined (a record, to compare with the others)
NoLimit == [maxRequests |-> -1, windowMs |-> -1]

VARIABLES
    rateLimit,          \* config.rateLimit: NoLimit or [maxRequests, windowMs]
    queue,              \* BatchHandler.queue: payloads, oldest first
    requestTimestamps,  \* BatchHandler.requestTimestamps, each as its age
    flushTimer,         \* BatchHandler.flushTimer: a timer handle or Null
    timers,             \* the runtime's armed timers: [handle, remaining]
                        \*   and, history, sentBefore: the number of
                        \*   sendCallback invocations when it was armed
    calls,              \* flush passes suspended in await sendCallback(event,
                        \*   true), each named by the id of that event
    destroyed,          \* WebhookPlugin.destroy() has run
    admitted,           \* history: the payloads passed to addEvent, in order
    sent,               \* history: sendCallback invocations, in order:
                        \*   [payload, rateLimitDelayed, age]
    everQueued,         \* history: ids of the payloads pushed onto queue
    burst               \* history: every addEvent so far came less than
                        \*   windowMs after the first one

bvars == <<rateLimit, queue, requestTimestamps, flushTimer, timers, calls,
           destroyed, admitted, sent, everQueued, burst>>

VARIABLES
    callNo,             \* handleEvent calls made so far; the current one's number
    current,            \* the current call: [eventType, payload] (fullPayload)
    settled,            \* per destination, its processWebhook promise in the
                        \*   current call: [state, value, reason]
    waitsOn,            \* per destination, what its processWebhook awaits
    returned,           \* what the current handleEvent call resolved with:
                        \*   [done, results]
    deliveries          \* the WebhookClient.send runs, by <<payload id,
                        \*   destination>>: send's locals and what it did

dvars == <<callNo, current, settled, waitsOn, returned, deliveries>>

VARIABLES
    options,     \* the middleware's options: context.directory, idleDelaySecs
    sessions,    \* AgentCompletionMiddleware.sessions: sessionId -> SessionState
    handlings,   \* the handleSessionIdle runs suspended in an await, by the
                 \*   number of their idle event
    idleTimers,  \* the idle timers, by the number of their idle event:
                 \*   [sessionId, remaining, status, had]
    emitted,     \* history: the onComplete invocations, in order
    counts,      \* history: [inputs, idles, objects, rejected, destroyed]
    lastStep     \* history: the step just taken: [kind, sessionId]

mvars == <<options, sessions, handlings, idleTimers, emitted, counts,
           lastStep>>

VARIABLES
    built,       \* what a function of the program built for the arguments it
                 \*   was given (joinMessageParts: [parts, messageContent]);
                 \*   handleEvent's fullPayload:
                 \*   [eventType, payload, now, fullPayload]
    index        \* the plugin's batchHandlers map and what went through it:
                 \*   [webhooks, batchHandlers, log]

ovars == <<mvars, built, index>>

\* ------------------------------------------------------------- helpers
Min(a, b) == IF a < b THEN a ELSE b
Max(a, b) == IF a > b THEN a ELSE b

RECURSIVE Filter(_, _)
\* Array.prototype.filter with the predicate (ts) => now - ts < windowMs
Filter(s, w) ==
    IF s = <<>> THEN <<>>
    ELSE IF Head(s) < w THEN <<Head(s)>> \o Filter(Tail(s), w)
         ELSE Filter(Tail(s), w)

maxRequests == rateLimit.maxRequests
windowMs == rateLimit.windowMs

\* the handler state one synchronous run reads and writes
Here == [queue |-> queue, ts |-> requestTimestamps, ft |-> flushTimer,
         timers |-> timers, calls |-> calls, sent |-> sent]

Armed(tm) == {t.handle : t \in tm}

\* clearTimeout(h): an armed timer is disarmed, anything else is a no-op
ClearTimeout(tm, h) == {t \in tm : t.handle # h}

\* a handle setTimeout has never returned before (none that is armed or stored)
NewHandle(s) ==
    CHOOSE h \in 1..(Cardinality(s.timers) + 2) :
        h \notin Armed(s.timers) \cup {s.ft}

\* this.requestTimestamps.length < maxRequests
HasCapacityOff(ts) == Len(ts) <= maxRequests
HasCapacity(ts) == Len(ts) < maxRequests

\* Math.max(windowMs - (now - oldestTimestamp), 100)
FlushDelayFloorOnly(ts) == MinFlushDelayMs
FlushDelay(ts) == Max(windowMs - ts[1], MinFlushDelayMs)

\* this.flushTimer = setTimeout(() => this.flush(), delayMs)
SetFlushTimer(s, delay) ==
    LET h == NewHandle(s)
    IN  [s EXCEPT !.timers = @ \cup {[handle |-> h, remaining |-> delay,
                                       sentBefore |-> Len(s.sent)]},
                  !.ft = h]

\* sendCallback(payload, rateLimitDelayed) is invoked
SendCallback(s, payload, delayed) ==
    [s EXCEPT !.sent = Append(@, [payload |-> payload,
                                  rateLimitDelayed |-> delayed, age |-> 0])]

\* await sendCallback(event, true) in flush: the pass is suspended.  (addEvent
\* does nothing more once its own await returns, so it is not kept.)
Await(s, event) == [s EXCEPT !.calls = @ \cup {event.id}]

\* !this.flushTimer, addEvent's test before it schedules a flush
NeedsTimerNever(ft) == FALSE
NeedsTimer(ft) == ft = Null

\* the payload flush hands to sendCallback for a queued event
QueuedPayloadRestamped(event) ==
    [event EXCEPT !.timestamp = "time of sending"]
QueuedPayload(event) == event

\* this.queue.length > 0, addEvent's test for a backlog before a direct send
BacklogIgnored(q) == FALSE
Backlog(q) == Len(q) > 0

\* this.queue.shift(): what is left of the queue
ShiftKeepsHead(q) == q
Shift(q) == Tail(q)

\* the flag addEvent passes to sendCallback on its direct sends
DirectFlagSet == TRUE
DirectFlag == FALSE

\* the flag flush passes to sendCallback on its sends
QueuedFlagClear == FALSE
QueuedFlag == TRUE

\* flush, the while loop from its test up to the next await or the exit
FlushLoop(s) ==
    IF s.queue = <<>> THEN s
    ELSE LET ts == Filter(s.ts, windowMs)
         IN  IF HasCapacity(ts)
             THEN Await(SendCallback(
                            [s EXCEPT !.queue = Shift(@), !.ts = Append(ts, 0)],
                            QueuedPayload(Head(s.queue)), QueuedFlag),
                        Head(s.queue))
             ELSE SetFlushTimer([s EXCEPT !.ts = ts], FlushDelay(ts))

\* flush, from its entry up to the first await or the return
Flush(s) ==
    IF s.queue = <<>> THEN s
    ELSE FlushLoop(IF s.ft # Null
                   THEN [s EXCEPT !.timers = ClearTimeout(@, s.ft), !.ft = Null]
                   ELSE s)

\* addEvent, up to its await or its return
AddEventStep(s, payload) ==
    IF rateLimit = NoLimit
    THEN SendCallback(s, payload, DirectFlag)
    ELSE LET ts == Filter(s.ts, windowMs)
             p == [s EXCEPT !.ts = ts]
         IN  IF HasCapacity(ts)
             THEN IF Backlog(s.queue)
                  THEN Flush([p EXCEPT !.queue = Append(@, payload)])
                  ELSE SendCallback([p EXCEPT !.ts = Append(@, 0)],
                                    payload, DirectFlag)
             ELSE LET q == [p EXCEPT !.queue = Append(@, payload)]
                  IN  IF NeedsTimer(q.ft)
                      THEN SetFlushTimer(q, FlushDelay(ts))
                      ELSE q

\* the handler state after a synchronous run
Becomes(s) ==
    /\ queue' = s.queue
    /\ requestTimestamps' = s.ts
    /\ flushTimer' = s.ft
    /\ timers' = s.timers
    /\ calls' = s.calls
    /\ sent' = s.sent

\* no handleEvent call has been made
NoCallYet ==
    /\ callNo = 0
    /\ current = [eventType |-> "none", payload |-> <<>>]
    /\ settled = <<>>
    /\ waitsOn = <<>>
    /\ returned = [done |-> TRUE, results |-> <<>>]
    /\ deliveries = <<>>

\* a middleware that has seen no event
NoEventYet ==
    /\ sessions = <<>>
    /\ handlings = <<>>
    /\ idleTimers = <<>>
    /\ emitted = <<>>
    /\ counts = [inputs |-> 0, idles |-> 0, objects |-> 0, rejected |-> 0,
                 destroyed |-> 0]
    /\ lastStep = [kind |-> "none", sessionId |-> ""]

\* no middleware, no payload built, no plugin indexed
NothingElse ==
    /\ options = [directory |-> [given |-> FALSE, segments |-> <<>>],
                  idleDelaySecs |-> 0]
    /\ NoEventYet
    /\ built = <<>>
    /\ index = <<>>

\* ------------------------------------------------------------- actions
RateLimits ==
    {NoLimit} \cup
    [maxRequests : 1..MaxRequestsMax, windowMs : {WindowMs}]

InitBatch ==
    /\ rateLimit \in RateLimits
    /\ queue = <<>>
    /\ requestTimestamps = <<>>
    /\ flushTimer = Null
    /\ timers = {}
    /\ calls = {}
    /\ destroyed = FALSE
    /\ admitted = <<>>
    /\ sent = <<>>
    /\ everQueued = {}
    /\ burst = TRUE
    /\ NoCallYet
    /\ NothingElse

\* the history of an addEvent(payload) run that left the handler as s
Noted(s, payload) ==
    /\ admitted' = Append(admitted, payload)
    /\ everQueued' = IF Len(s.sent) > Len(sent)
                          /\ s.sent[Len(s.sent)].payload.id = payload.id
                     THEN everQueued
                     ELSE everQueued \cup {payload.id}
    /\ burst' = (burst /\ (sent = <<>> \/ rateLimit = NoLimit
                           \/ sent[1].age < windowMs))

\* processWebhook reaches batchHandler.addEvent(payload) while the handler is
\* still in the plugin's batchHandlers map
AddEvent ==
    /\ ~destroyed
    /\ Len(admitted) < MaxEvents
    /\ \E stamp \in Stamps :
         LET payload == [id |-> Len(admitted) + 1, timestamp |-> stamp]
             s == AddEventStep(Here, payload)
         IN  /\ Becomes(s)
             /\ Noted(s, payload)
    /\ UNCHANGED <<rateLimit, destroyed>>
    /\ UNCHANGED dvars
    /\ UNCHANGED ovars

\* an armed timer that is due fires: () => { this.flush() }
TimerFire ==
    /\ \E t \in timers :
         /\ t.remaining = 0
         /\ Becomes(Flush([Here EXCEPT !.timers = @ \ {t}]))
    /\ UNCHANGED <<rateLimit, destroyed, admitted, everQueued, burst>>
    /\ UNCHANGED dvars
    /\ UNCHANGED ovars

\* the send a flush pass awaits settles and the pass goes round its loop
SendComplete ==
    /\ \E c \in calls : Becomes(FlushLoop([Here EXCEPT !.calls = @ \ {c}]))
    /\ UNCHANGED <<rateLimit, destroyed, admitted, everQueued, burst>>
    /\ UNCHANGED dvars
    /\ UNCHANGED ovars

Older(age) == IF rateLimit = NoLimit THEN 0 ELSE Min(age + Step, windowMs)

\* Step milliseconds pass
Tick ==
    /\ requestTimestamps' =
         [i \in 1..Len(requestTimestamps) |-> Older(requestTimestamps[i])]
    /\ sent' = [i \in 1..Len(sent) |-> [sent[i] EXCEPT !.age = Older(@)]]
    /\ timers' = {[t EXCEPT !.remaining = Max(@ - Step, 0)] : t \in timers}
    /\ UNCHANGED <<rateLimit, queue, flushTimer, calls, destroyed, admitted,
                   everQueued, burst>>
    /\ UNCHANGED dvars
    /\ UNCHANGED ovars

\* WebhookPlugin.destroy: handler.destroy() and batchHandlers.clear()
Destroy ==
    /\ ~destroyed
    /\ destroyed' = TRUE
    /\ IF flushTimer # Null
       THEN /\ timers' = ClearTimeout(timers, flushTimer)
            /\ flushTimer' = Null
       ELSE UNCHANGED <<timers, flushTimer>>
    /\ UNCHANGED <<rateLimit, queue, requestTimestamps, calls, admitted, sent,
                   everQueued, burst>>
    /\ UNCHANGED dvars
    /\ UNCHANGED ovars

NextBatch == AddEvent \/ TimerFire \/ SendComplete \/ Tick \/ Destroy

Spec == InitBatch /\ [][NextBatch]_bvars

\* every send settles, due timers fire, time passes
FairSpec ==
    /\ Spec
    /\ WF_bvars(TimerFire)
    /\ WF_bvars(SendComplete)
    /\ WF_bvars(Tick)

\* ------------------------------------------------------------- the claims
Limited == rateLimit # NoLimit
InWindow == {i \in 1..Len(sent) : sent[i].age < windowMs}
InQueue(i) == \E k \in 1..Len(queue) : queue[k].id = i
WasSent(i) == \E k \in 1..Len(sent) : sent[k].payload.id = i
FlushPasses == calls

\* C1: on a rate-limited destination, in every reachable state the number of
\* sends whose timestamp t has now - t < windowMs is at most maxRequests.
C1_RateWindowRespected ==
    Limited => Cardinality(InWindow) <= maxRequests

\* C1 witness: the window is full after a flush pass sent a queued event, and
\* a backlog is still waiting.
C1_Witness ==
    /\ Limited
    /\ Cardinality(InWindow) = maxRequests
    /\ queue # <<>>
    /\ \E i \in InWindow : sent[i].rateLimitDelayed

\* C2: sendCallback is invoked for the events in exactly the order of their
\* addEvent calls: the k-th invocation carries the k-th admitted event.
C2_SendOrderIsArrivalOrder ==
    \A k \in 1..Len(sent) : sent[k].payload.id = k

\* C2 witness: a direct send happened after a queued event had been sent by a
\* flush pass that is still awaiting its send.
C2_Witness ==
    /\ Limited
    /\ \E k \in 2..Len(sent) :
         /\ sent[k - 1].rateLimitDelayed
         /\ ~sent[k].rateLimitDelayed
         /\ sent[k - 1].payload.id \in FlushPasses

\* C3: every admitted event is either still in the pending queue, once, or
\* has been handed to sendCallback, once; never both, never neither.
C3_ExactlyOnce ==
    \A i \in 1..Len(admitted) :
        Cardinality({k \in 1..Len(queue) : queue[k].id = i})
          + Cardinality({k \in 1..Len(sent) : sent[k].payload.id = i}) = 1

\* C3 witness: two flush passes are in flight at once, one event still waits.
C3_Witness ==
    /\ Cardinality(FlushPasses) >= 2
    /\ queue # <<>>

\* C4: unless destroy is called, every event in the pending queue is
\* eventually handed to sendCallback (sends settle, time passes, timers
\* fire), with no further addEvent needed.
C4_QueuedEventuallySent ==
    (<>destroyed) \/ (\A i \in 1..MaxEvents : InQueue(i) ~> WasSent(i))

\* C5: while the queue is non-empty and no flush pass is executing, the
\* stored handle is that of an armed timer; the stored handle never names a
\* timer that has fired.
C5_QueuedHasArmedTimer ==
    ~destroyed =>
        /\ (queue # <<>> /\ FlushPasses = {}) => flushTimer \in Armed(timers)
        /\ flushTimer # Null => flushTimer \in Armed(timers)

\* C6: at most one armed (un-fired) flush timer exists for the destination.
C6_AtMostOneTimer ==
    Cardinality(timers) <= 1

\* C7: after maxRequests + 1 events admitted within less than windowMs (and
\* nothing else), exactly the first maxRequests were sent directly and the
\* last one was queued behind an armed flush timer; it is then delivered, with
\* the flag true and not before windowMs has passed since the oldest send.
C7_Last == maxRequests + 1
C7_Scenario ==
    Limited /\ burst /\ ~destroyed /\ Len(admitted) = C7_Last
C7_BurstOverflowQueuedThenSent ==
    /\ [](C7_Scenario =>
            /\ \A k \in 1..maxRequests :
                 sent[k].payload.id = k /\ ~sent[k].rateLimitDelayed
            /\ everQueued = {C7_Last}
            /\ InQueue(C7_Last) =>
                 Len(sent) = maxRequests /\ flushTimer \in Armed(timers)
            /\ ~InQueue(C7_Last) =>
                 /\ Len(sent) = C7_Last
                 /\ sent[C7_Last].payload.id = C7_Last
                 /\ sent[C7_Last].rateLimitDelayed
                 /\ sent[1].age >= windowMs)
    /\ [](C7_Scenario /\ InQueue(C7_Last) =>
            <>(WasSent(C7_Last) \/ ~C7_Scenario))

\* C7 witness: the overflow event of such a burst has been delivered.
C7_Witness ==
    C7_Scenario /\ WasSent(C7_Last)

\* C8: the payload handed to sendCallback is the payload that was passed to
\* addEvent for that event, timestamp included.
C8_PayloadUnchanged ==
    \A k \in 1..Len(sent) :
        sent[k].payload.id \in 1..Len(admitted)
        /\ sent[k].payload = admitted[sent[k].payload.id]

\* C8 witness: an event was sent from the queue by a second or later flush
\* pass, after time had passed.
C8_Witness ==
    \E k \in 3..Len(sent) :
        /\ sent[k].rateLimitDelayed
        /\ sent[k - 1].rateLimitDelayed
        /\ sent[k - 1].age >= windowMs

\* C9: once destroy has returned, sendCallback is never invoked again.
C9_NoSendAfterDestroy ==
    [][destroyed => Len(sent') = Len(sent)]_bvars

\* C10: without rateLimit every event is handed to sendCallback at once with
\* the flag false; nothing is queued and no timer is armed.
C10_UnlimitedSendsAtOnce ==
    ~Limited =>
        /\ queue = <<>> /\ timers = {} /\ flushTimer = Null
        /\ everQueued = {}
        /\ Len(sent) = Len(admitted)
        /\ \A k \in 1..Len(sent) :
             sent[k].payload = admitted[k] /\ ~sent[k].rateLimitDelayed

\* C10 witness: several events went through a destination without rateLimit.
C10_Witness ==
    ~Limited /\ Len(sent) >= 3

\* what one step handed to sendCallback
NewlySent == SubSeq(sent', Len(sent) + 1, Len(sent'))
\* the step is an addEvent run
Admits == Len(admitted') = Len(admitted) + 1
\* the event is in the queue when the step is over
InQueueAfter(i) == \E k \in 1..Len(queue') : queue'[k].id = i
\* addEvent finds capacity in the window and an empty queue
ImmediatePath ==
    HasCapacity(Filter(requestTimestamps, windowMs)) /\ queue = <<>>

\* C35: on a rate-limited destination sendCallback gets the flag true exactly
\* for the events that were in the pending queue, and the flag false exactly
\* for the events addEvent sent on the immediate path (capacity in the window
\* and an empty queue); an addEvent on any other path puts its event in the
\* queue.
C35_QueuedFlagTellsThePath ==
    [][Limited =>
         /\ \A k \in 1..Len(NewlySent) :
              LET e == NewlySent[k]
              IN  /\ e.rateLimitDelayed <=> InQueue(e.payload.id)
                  /\ ~e.rateLimitDelayed =>
                       /\ Admits /\ ImmediatePath
                       /\ e.payload.id = Len(admitted')
                       /\ ~InQueueAfter(e.payload.id)
         /\ Admits =>
              IF ImmediatePath
              THEN /\ Len(NewlySent) = 1
                   /\ NewlySent[1].payload.id = Len(admitted')
                   /\ ~NewlySent[1].rateLimitDelayed
                   /\ queue' = <<>>
              ELSE InQueueAfter(Len(admitted'))
    ]_bvars

\* C35 witness: an event that waited in the queue was sent with the flag true
\* after an event sent at once with the flag false, and a later event found
\* capacity but a backlog and waits in the queue.
C35_Witness ==
    /\ Limited
    /\ \E k \in 2..Len(sent) :
         ~sent[k - 1].rateLimitDelayed /\ sent[k].rateLimitDelayed
    /\ queue # <<>>
    /\ HasCapacity(Filter(requestTimestamps, windowMs))

\* C37: for one rate-limited destination at most one flush pass is executing
\* at any time: no second pass starts while a pass awaits its send callback.
C37_AtMostOneFlushPass ==
    Cardinality(FlushPasses) <= 1

\* the timers one step armed
NewlyArmed == {t \in timers' : t.handle \notin Armed(timers)}
\* the step is the firing of a flush timer that finds events waiting, and
\* sendCallback has not been invoked since that timer was armed
FiresOnBacklog ==
    /\ queue # <<>>
    /\ \E t \in timers :
         /\ t.remaining = 0
         /\ t.handle \notin Armed(timers')
         /\ t.sentBefore = Len(sent)
    /\ admitted' = admitted
    /\ destroyed' = destroyed
    /\ calls \subseteq calls'

\* C38: with maxRequests >= 1, when a flush timer armed with delay
\* max(100, windowMs - age of the oldest send in the window) fires while events
\* wait and nothing was sent since it was armed, a slot of the window is free
\* and the pass hands the oldest queued event to sendCallback rather than only
\* arming another timer; no timer is ever armed with a delay below 100 ms.
C38_FiringTimerFindsSlot ==
    [][Limited =>
         /\ FiresOnBacklog =>
              /\ Len(NewlySent) = 1
              /\ NewlySent[1].payload = queue[1]
              /\ NewlySent[1].rateLimitDelayed
         /\ \A t \in NewlyArmed : t.remaining >= MinFlushDelayMs
    ]_bvars

\* C38 witness: the second event waited for the timer and was sent by its
\* pass (no addEvent found a backlog and capacity: the third is the only later
\* one and it waits); the timer now running was armed with the floor, more
\* than the time the oldest send still has in the window.
C38_Witness ==
    /\ Limited
    /\ Len(admitted) = 3 /\ Len(sent) = 2
    /\ sent[2].rateLimitDelayed
    /\ InQueue(3)
    /\ \E t \in timers :
         /\ t.handle = flushTimer
         /\ t.sentBefore = 2
         /\ t.remaining + requestTimestamps[1] > windowMs

\* =====================================================================
\* Part 2: WebhookClient.send and WebhookPlugin.handleEvent
\* =====================================================================

\* ---------------------------------------------------------------- bounds
MaxCalls == 2           \* handleEvent calls in one behaviour
DelayMs == 50           \* retry.delayMs of the destinations that set it
AttemptsA == 2          \* retry.maxAttempts of the first destination

\* ------------------------------------------------------ program constants
DefaultMaxAttempts == 3     \* config.retry?.maxAttempts ?? 3
DefaultDelayMs == 1000      \* config.retry?.delayMs ?? 1000
Undefined == -1             \* an option that is not set

\* WebhookPluginConfig.webhooks, in configuration order.  shouldSend and
\* transformPayload say whether the destination sets the function.
webhooks == <<
    [url |-> "https://a.example/hook",
     events |-> {"session.idle", "session.error"},
     shouldSend |-> TRUE, transformPayload |-> TRUE,
     retry |-> [maxAttempts |-> AttemptsA, delayMs |-> DelayMs],
     rateLimit |-> NoLimit],
    [url |-> "https://b.example/hook",
     events |-> {"session.idle"},
     shouldSend |-> FALSE, transformPayload |-> FALSE,
     retry |-> [maxAttempts |-> Undefined, delayMs |-> DelayMs],
     rateLimit |-> NoLimit],
    [url |-> "https://c.example/hook",
     events |-> {"session.idle"},
     shouldSend |-> TRUE, transformPayload |-> TRUE,
     retry |-> [maxAttempts |-> 1, delayMs |-> Undefined],
     rateLimit |-> [maxRequests |-> 1, windowMs |-> WindowMs]] >>

\* WebhookPluginConfig.defaultRetry is not set
defaultRetry == [maxAttempts |-> Undefined, delayMs |-> Undefined]

Dests == 1..Len(webhooks)

\* axios(requestConfig): resolves with a status, or rejects with a message
\* and, when a response came, its status (0: error.response is undefined)
HttpOutcomes ==
    {[ok |-> TRUE, status |-> 200, message |-> ""],
     [ok |-> FALSE, status |-> 0, message |-> "Network Error"],
     [ok |-> FALSE, status |-> 500,
      message |-> "Request failed with status code 500"]}

\* a ?? b
Nullish(a, b) == IF a = Undefined THEN b ELSE a

\* sendWebhook / sendWebhookDirect: webhookWithDefaults.retry
WithDefaults(w) ==
    [w EXCEPT !.retry =
        [maxAttempts |-> Nullish(w.retry.maxAttempts,
                                 Nullish(defaultRetry.maxAttempts,
                                         DefaultMaxAttempts)),
         delayMs |-> Nullish(w.retry.delayMs,
                             Nullish(defaultRetry.delayMs, DefaultDelayMs))]]

\* send: const maxAttempts = config.retry?.maxAttempts ?? 3, delayMs likewise
MaxAttemptsOf(w) == Nullish(w.retry.maxAttempts, DefaultMaxAttempts)
DelayMsOf(w) == Nullish(w.retry.delayMs, DefaultDelayMs)

\* a WebhookResult; statusCode 0 and error "undefined" stand for absent
Result(success, url, statusCode, error, attempts) ==
    [success |-> success, webhookUrl |-> url, statusCode |-> statusCode,
     error |-> error, attempts |-> attempts]
NoResult == Result(FALSE, "", 0, "undefined", Undefined)

\* send's locals at its start, and the record of what the run did
NewRun(payload, d) ==
    [payload |-> payload, dest |-> d,
     attempts |-> 0, lastError |-> "undefined",
     phase |-> "start", remaining |-> 0, result |-> NoResult,
     httpCalls |-> 0, transforms |-> 0, waits |-> <<>>,
     lastFailure |-> "undefined", okAt |-> 0]

\* sendOnce's catch: new Error(`Webhook request failed: ${message}
\* (status: ${response?.status})`)
SendOnceMessage(o) ==
    IF o.status = 0
    THEN "Webhook request failed: Network Error (status: undefined)"
    ELSE "Webhook request failed: Request failed with status code 500 (status: 500)"

\* the error a throwing transformPayload raises inside sendOnce
TransformMessage == "transformPayload failed"

\* lastError = this.getErrorMessage(error)
LastError(prev, msg) == msg

\* the attempts field of sendOnce's success result
SuccessAttemptsCounted(k) == k
SuccessAttempts(k) == 1

\* await this.delay(delayMs * attempts)
BackoffConstant(w, attempts) == DelayMsOf(w)
Backoff(w, attempts) == DelayMsOf(w) * attempts

\* the try block of send's loop encloses sendOnce: its errors are caught
CaughtUnlessLast(r, w) == r.attempts < MaxAttemptsOf(w)
Caught(r, w) == TRUE

\* the loop test after a caught error: attempts < maxAttempts
RetriesForever(r, w) == TRUE
Retries(r, w) == r.attempts < MaxAttemptsOf(w)

\* send after its loop: all attempts failed
Exhausted(r, w) ==
    [r EXCEPT !.phase = "returned",
              !.result = Result(FALSE, w.url,
                                0,
                                IF r.lastError = "undefined"
                                THEN "Unknown error" ELSE r.lastError,
                                r.attempts)]

\* send's catch block, then the wait or the end of the loop
Catch(r, w, msg) ==
    IF ~Caught(r, w) THEN [r EXCEPT !.phase = "thrown", !.lastFailure = msg]
    ELSE LET c == [r EXCEPT !.lastError = LastError(@, msg),
                            !.lastFailure = msg]
         IN  IF Retries(c, w)
             THEN [c EXCEPT !.phase = "backoff",
                            !.remaining = Backoff(w, c.attempts),
                            !.waits = Append(@, Backoff(w, c.attempts))]
             ELSE Exhausted(c, w)

\* whether sendOnce calls config.transformPayload(payload)
Transforms(r, w) == w.transformPayload

\* one turn of send's loop up to its await: attempts++, then sendOnce up to
\* axios(requestConfig), or up to the error transformPayload throws
Attempt(r, w) ==
    LET a == [r EXCEPT !.attempts = @ + 1]
        t == IF Transforms(a, w) THEN [a EXCEPT !.transforms = @ + 1] ELSE a
    IN  IF Transforms(a, w) /\ r.payload.bad
        THEN Catch(t, w, TransformMessage)
        ELSE [t EXCEPT !.phase = "http", !.httpCalls = @ + 1]

\* send after sendOnce returned a result: return result
AfterSuccessGoesOn(r, w, res) ==
    [r EXCEPT !.result = res,
              !.phase = IF r.attempts < MaxAttemptsOf(w)
                        THEN "backoff" ELSE "returned"]
AfterSuccess(r, w, res) == [r EXCEPT !.phase = "returned", !.result = res]

\* the awaited axios call settles with outcome o
AfterHttp(r, w, o) ==
    IF o.ok
    THEN AfterSuccess([r EXCEPT !.okAt = r.attempts], w,
                      Result(TRUE, w.url, o.status, "undefined",
                             SuccessAttempts(r.attempts)))
    ELSE Catch(r, w, SendOnceMessage(o))

\* the wait of delay(ms) is over and the loop goes round
AfterBackoff(r, w) == Attempt(r, w)

\* ---------------------------------------------------------- handleEvent
\* the handleEvent calls made: the event type, and what the payload is to the
\* user's functions: how shouldSend answers it, whether transformPayload
\* throws on it
Inputs ==
    {[eventType |-> "session.idle", keep |-> "true", bad |-> FALSE],
     [eventType |-> "session.idle", keep |-> "false", bad |-> FALSE],
     [eventType |-> "session.idle", keep |-> "throws", bad |-> FALSE],
     [eventType |-> "session.idle", keep |-> "true", bad |-> TRUE],
     [eventType |-> "session.error", keep |-> "true", bad |-> FALSE],
     [eventType |-> "session.created", keep |-> "true", bad |-> FALSE]}

\* new Date().toISOString() at the time of a call
CallStamp == "00:00:00.000Z"

\* the error a throwing shouldSend raises inside processWebhook
ShouldSendMessage == "shouldSend failed"

\* this.webhooksByEvent.get(eventType), in the order Array.from gives:
\* the order indexWebhooks inserted them, which is configuration order
Subscribed(eventType) ==
    SelectSeq([d \in Dests |-> d], LAMBDA d : eventType \in webhooks[d].events)

Range(f) == {f[i] : i \in DOMAIN f}

\* the destination indexWebhooks made a BatchHandler for
LimitedDest == CHOOSE d \in Dests : webhooks[d].rateLimit # NoLimit

\* processWebhook: webhook.rateLimit is set and batchHandlers.get(key) exists
Batched(d) == webhooks[d].rateLimit # NoLimit /\ ~destroyed

\* webhook.shouldSend && !webhook.shouldSend(payload)
ShouldSendIgnored(w, payload) == "true"
ShouldSend(w, payload) == IF w.shouldSend THEN payload.keep ELSE "true"

\* a promise of processWebhook
Idle == [state |-> "idle", value |-> NoResult, reason |-> "undefined"]
Pending == [state |-> "pending", value |-> NoResult, reason |-> "undefined"]
Fulfilled(v) == [state |-> "fulfilled", value |-> v, reason |-> "undefined"]
Rejected(msg) == [state |-> "rejected", value |-> NoResult, reason |-> msg]
Waits(what, pass) == [what |-> what, pass |-> pass]

\* processWebhook's { success: true, webhookUrl, attempts: 0 }
Skipped(w) == Result(TRUE, w.url, 0, "undefined", 0)

\* what processWebhook's promise becomes when the send it awaits has ended:
\* on the direct path the result of client.send, through addEvent the fixed
\* result of the rate-limited path
EndedAsSent(r, what) ==
    IF r.phase = "thrown" THEN Rejected(r.lastFailure)
    ELSE IF r.phase = "returned" THEN Fulfilled(r.result)
         ELSE Pending
Ended(r, what) ==
    IF r.phase = "thrown" THEN Rejected(r.lastFailure)
    ELSE IF r.phase = "returned"
         THEN Fulfilled(IF what = "send" THEN r.result
                        ELSE Skipped(webhooks[r.dest]))
         ELSE Pending

\* handleEvent's mapping of a settled promise to a result
ForRejectedSucceeds(p) == Result(TRUE, "unknown", 0, "undefined", 1)
ForRejected(p) ==
    Result(FALSE, "unknown", 0,
           IF p.reason = "undefined" THEN "Unknown error" ELSE p.reason, 1)
ResultOf(p) == IF p.state = "fulfilled" THEN p.value ELSE ForRejected(p)

\* await Promise.allSettled(promises) and the map over its results
Returned(st, subs) ==
    IF \A i \in 1..Len(subs) : st[subs[i]].state \in {"fulfilled", "rejected"}
    THEN [done |-> TRUE,
          results |-> [i \in 1..Len(subs) |-> ResultOf(st[subs[i]])]]
    ELSE [done |-> FALSE, results |-> <<>>]

\* the events a synchronous run of the handler handed to sendCallback
NewSent(s) == {s.sent[i].payload : i \in (Len(sent) + 1)..Len(s.sent)}

\* sendWebhookDirect for each of them: client.send up to its first await
Spawned(s) ==
    [k \in {<<p.id, LimitedDest>> : p \in NewSent(s)} |->
        Attempt(NewRun(CHOOSE p \in NewSent(s) : p.id = k[1], LimitedDest),
                WithDefaults(webhooks[LimitedDest]))]

\* the send runs a new handleEvent call finds: those that have not ended, and
\* those whose end a flush pass has yet to see; the locals of the others are gone
Live ==
    [k \in {j \in DOMAIN deliveries :
                \/ deliveries[j].phase \notin {"returned", "thrown"}
                \/ j[2] = LimitedDest /\ j[1] \in calls} |-> deliveries[k]]

\* the destinations whose first client.send call handleEvent's map makes
LaunchedFirstOnly(subs, payload) ==
    {d \in Range(subs) : /\ ShouldSend(webhooks[d], payload) = "true"
                         /\ ~Batched(d)
                         /\ \A e \in Range(subs) : e >= d}
Launched(subs, payload) ==
    {d \in Range(subs) : ShouldSend(webhooks[d], payload) = "true"
                         /\ ~Batched(d)}

\* sendWebhook for each of them: client.send up to its first await
Started(subs, payload) ==
    [k \in {<<payload.id, d>> : d \in Launched(subs, payload)} |->
        Attempt(NewRun(payload, k[2]), WithDefaults(webhooks[k[2]]))]

\* processWebhook up to its first await or its return, for destination d;
\* s is the handler after addEvent's run, dl the send runs after this run
ProcessWebhook(d, payload, s, dl) ==
    LET w == webhooks[d]
        last == s.sent[Len(s.sent)]
    IN  IF ShouldSend(w, payload) = "throws"
        THEN [p |-> Rejected(ShouldSendMessage), w |-> Waits("none", 0)]
        ELSE IF ShouldSend(w, payload) = "false"
        THEN [p |-> Fulfilled(Skipped(w)), w |-> Waits("none", 0)]
        ELSE IF ~Batched(d)
        THEN IF <<payload.id, d>> \in DOMAIN dl
             THEN [p |-> Ended(dl[<<payload.id, d>>], "send"),
                   w |-> Waits("send", 0)]
             ELSE [p |-> Pending, w |-> Waits("never", 0)]
        ELSE IF Len(s.sent) = Len(sent)
        THEN [p |-> Fulfilled(Skipped(w)), w |-> Waits("none", 0)]
        ELSE IF last.payload.id = payload.id /\ ~last.rateLimitDelayed
        THEN [p |-> Ended(dl[<<payload.id, d>>], "addEvent"),
              w |-> Waits("addEvent", 0)]
        ELSE [p |-> Pending, w |-> Waits("flush", last.payload.id)]

\* the promises of the current call after the send runs became dl
Resolve(dl) ==
    [d \in DOMAIN settled |->
        IF settled[d].state = "pending"
           /\ waitsOn[d].what \in {"send", "addEvent"}
        THEN Ended(dl[<<callNo, d>>], waitsOn[d].what)
        ELSE settled[d]]

\* handleEvent(eventType, payload), up to await Promise.allSettled; and its
\* return, when nothing is left to wait for
HandleEvent ==
    /\ returned.done
    /\ callNo < MaxCalls
    /\ \E in \in Inputs :
         LET eventType == in.eventType
             payload == [id |-> callNo + 1, timestamp |-> CallStamp,
                         keep |-> in.keep, bad |-> in.bad]
             subs == Subscribed(eventType)
             viaBatch == \E d \in Range(subs) :
                             /\ ShouldSend(webhooks[d], payload) = "true"
                             /\ Batched(d)
             s == IF viaBatch THEN AddEventStep(Here, payload) ELSE Here
             dl == Started(subs, payload) @@ Spawned(s) @@ Live
             pw == [d \in Dests |->
                       IF d \in Range(subs)
                       THEN ProcessWebhook(d, payload, s, dl)
                       ELSE [p |-> Idle, w |-> Waits("none", 0)]]
             st == [d \in Dests |-> pw[d].p]
         IN  /\ callNo' = callNo + 1
             /\ current' = [eventType |-> eventType, payload |-> payload]
             /\ Becomes(s)
             /\ IF viaBatch THEN Noted(s, payload)
                ELSE UNCHANGED <<admitted, everQueued, burst>>
             /\ deliveries' = dl
             /\ settled' = st
             /\ waitsOn' = [d \in Dests |-> pw[d].w]
             /\ returned' = Returned(st, subs)
    /\ UNCHANGED <<rateLimit, destroyed>>
    /\ UNCHANGED ovars

\* the current handleEvent call after its promises became st
Resumed(st) ==
    IF returned.done THEN returned
    ELSE Returned(st, Subscribed(current.eventType))

\* the axios call of a send run settles: the rest of sendOnce, and send up to
\* its next await or its return
HttpSettles ==
    /\ \E k \in DOMAIN deliveries, o \in HttpOutcomes :
         /\ deliveries[k].phase = "http"
         /\ LET dl == [deliveries EXCEPT
                          ![k] = AfterHttp(@, WithDefaults(webhooks[k[2]]), o)]
            IN  /\ deliveries' = dl
                /\ settled' = Resolve(dl)
                /\ returned' = Resumed(Resolve(dl))
    /\ UNCHANGED <<callNo, current, waitsOn>>
    /\ UNCHANGED bvars
    /\ UNCHANGED ovars

\* the delay between two attempts is over: the next turn of send's loop
BackoffElapsed ==
    /\ \E k \in DOMAIN deliveries :
         /\ deliveries[k].phase = "backoff"
         /\ deliveries[k].remaining = 0
         /\ LET dl == [deliveries EXCEPT
                          ![k] = AfterBackoff(@, WithDefaults(webhooks[k[2]]))]
            IN  /\ deliveries' = dl
                /\ settled' = Resolve(dl)
                /\ returned' = Resumed(Resolve(dl))
    /\ UNCHANGED <<callNo, current, waitsOn>>
    /\ UNCHANGED bvars
    /\ UNCHANGED ovars

\* the handler's timer fires: flush, with sendWebhookDirect as sendCallback
FlushTimerFires ==
    /\ \E t \in timers :
         /\ t.remaining = 0
         /\ LET s == Flush([Here EXCEPT !.timers = @ \ {t}])
            IN  /\ Becomes(s)
                /\ deliveries' = Spawned(s) @@ deliveries
    /\ UNCHANGED <<rateLimit, destroyed, admitted, everQueued, burst>>
    /\ UNCHANGED <<callNo, current, settled, waitsOn, returned>>
    /\ UNCHANGED ovars

\* the send a flush pass awaits has ended and the pass goes round its loop;
\* when the pass was started by addEvent and ends here, addEvent returns and
\* processWebhook after it
FlushSendComplete ==
    /\ \E c \in calls :
         /\ deliveries[<<c, LimitedDest>>].phase \in {"returned", "thrown"}
         /\ LET s == FlushLoop([Here EXCEPT !.calls = @ \ {c}])
                next == IF Len(s.sent) > Len(sent)
                        THEN s.sent[Len(s.sent)].payload.id ELSE 0
                mine(d) == /\ settled[d].state = "pending"
                           /\ waitsOn[d] = Waits("flush", c)
                st == [d \in DOMAIN settled |->
                          IF mine(d) /\ next = 0
                          THEN Fulfilled(Skipped(webhooks[d]))
                          ELSE settled[d]]
            IN  /\ Becomes(s)
                /\ deliveries' = Spawned(s) @@ deliveries
                /\ waitsOn' = [d \in DOMAIN waitsOn |->
                                  IF mine(d) /\ next # 0
                                  THEN Waits("flush", next) ELSE waitsOn[d]]
                /\ settled' = st
                /\ returned' = Resumed(st)
    /\ UNCHANGED <<rateLimit, destroyed, admitted, everQueued, burst>>
    /\ UNCHANGED <<callNo, current>>
    /\ UNCHANGED ovars

\* Step milliseconds pass, for the handler and for the waiting send runs
Elapse ==
    /\ requestTimestamps' =
         [i \in 1..Len(requestTimestamps) |-> Older(requestTimestamps[i])]
    /\ sent' = [i \in 1..Len(sent) |-> [sent[i] EXCEPT !.age = Older(@)]]
    /\ timers' = {[t EXCEPT !.remaining = Max(@ - Step, 0)] : t \in timers}
    /\ deliveries' = [k \in DOMAIN deliveries |->
                         [deliveries[k] EXCEPT !.remaining = Max(@ - Step, 0)]]
    /\ UNCHANGED <<rateLimit, queue, flushTimer, calls, destroyed, admitted,
                   everQueued, burst>>
    /\ UNCHANGED <<callNo, current, settled, waitsOn, returned>>
    /\ UNCHANGED ovars

vars == <<bvars, dvars>>

\* createWebhookPlugin(config): the handler of the rate-limited destination
InitDispatch ==
    /\ InitBatch
    /\ rateLimit = webhooks[LimitedDest].rateLimit

NextDispatch ==
    \/ HandleEvent
    \/ HttpSettles
    \/ BackoffElapsed
    \/ FlushTimerFires
    \/ FlushSendComplete
    \/ Elapse
    \/ Destroy

SpecDispatch == InitDispatch /\ [][NextDispatch]_vars

\* ------------------------------------------------- the claims of part 2
Subs == Subscribed(current.eventType)
Called == callNo > 0
HasEnded(d) == settled[d].state \in {"fulfilled", "rejected"}
\* the send run of the current call for destination d
RunOf(d) == deliveries[<<callNo, d>>]
HasRun(d) == <<callNo, d>> \in DOMAIN deliveries

\* C11: a handleEvent call resolves as soon as every destination's processing
\* has settled, never rejects, and resolves with exactly one result per
\* subscribed destination in configuration order: the value of a fulfilled
\* processing (carrying that destination's url), a failed result (success =
\* false) in the position of a rejected one; with no subscriber the list is
\* empty and no HTTP call is made.
C11_OneResultPerDestination ==
    Called =>
        /\ (\A i \in 1..Len(Subs) : HasEnded(Subs[i])) => returned.done
        /\ returned.done =>
            /\ Len(returned.results) = Len(Subs)
            /\ \A i \in 1..Len(Subs) :
                 /\ settled[Subs[i]].state = "fulfilled" =>
                      /\ returned.results[i] = settled[Subs[i]].value
                      /\ returned.results[i].webhookUrl = webhooks[Subs[i]].url
                 /\ settled[Subs[i]].state = "rejected" =>
                      ~returned.results[i].success
            /\ Subs = <<>> => \A k \in DOMAIN deliveries : k[1] # callNo

\* C11 witness: a call to three destinations has resolved; the first one's
\* processing was rejected, the second one's delivery succeeded over HTTP.
C11_Witness ==
    /\ Called
    /\ returned.done
    /\ Len(returned.results) = 3
    /\ settled[1].state = "rejected"
    /\ ~returned.results[1].success
    /\ returned.results[2].success
    /\ returned.results[2].statusCode = 200

\* the destinations of the current call that take the direct path
Direct ==
    {d \in Range(Subs) : /\ ShouldSend(webhooks[d], current.payload) = "true"
                         /\ webhooks[d].rateLimit = NoLimit}

\* C12: in every state of a call, whatever the other destinations are doing
\* (failing, waiting in their backoff), each destination on the direct path
\* has already made its first attempt; its promise settles as soon as its own
\* send run has returned, and its result is the result of its own run, which
\* reports success exactly when one of its own HTTP calls succeeded.
C12_DestinationsIndependent ==
    Called =>
        \A d \in Direct :
            /\ HasRun(d)
            /\ RunOf(d).attempts >= 1
            /\ RunOf(d).phase = "returned" <=> settled[d].state = "fulfilled"
            /\ settled[d].state = "fulfilled" =>
                 /\ settled[d].value = RunOf(d).result
                 /\ settled[d].value.webhookUrl = webhooks[d].url
                 /\ settled[d].value.success <=> RunOf(d).okAt > 0

\* C12 witness: the first destination has failed and waits in its backoff
\* while the second one's delivery has already succeeded and settled.
C12_Witness ==
    /\ Called
    /\ ~returned.done
    /\ {1, 2} \subseteq Direct
    /\ RunOf(1).phase = "backoff"
    /\ RunOf(1).remaining > 0
    /\ settled[2].state = "fulfilled"
    /\ settled[2].value.success

\* the destinations of the current call whose shouldSend returned false
FilteredOut ==
    {d \in Range(Subs) : webhooks[d].shouldSend
                         /\ current.payload.keep = "false"}

\* C13: a destination whose shouldSend returned false for the event has no
\* send run for it (no HTTP call), the event was not handed to its rate
\* limiter (not admitted, not queued, not sent, no timestamp taken), and its
\* processing is fulfilled with {success: true, attempts: 0}; the destinations
\* without a filter have made their attempt all the same.
C13_FilteredOutNeverSent ==
    Called =>
        \A d \in FilteredOut :
            /\ ~HasRun(d)
            /\ \A i \in 1..Len(admitted) : admitted[i].id # callNo
            /\ ~InQueue(callNo)
            /\ ~WasSent(callNo)
            /\ settled[d] = Fulfilled(Skipped(webhooks[d]))
            /\ settled[d].value.success
            /\ settled[d].value.attempts = 0
            /\ \A e \in Range(Subs) \ FilteredOut :
                 HasRun(e) /\ RunOf(e).httpCalls >= 1

\* C13 witness: the second call is filtered out by the first and by the
\* rate-limited destination, while the limiter holds a request of the first
\* call in its window; the unfiltered destination's delivery succeeded.
C13_Witness ==
    /\ callNo = 2
    /\ returned.done
    /\ FilteredOut = {1, LimitedDest}
    /\ Len(requestTimestamps) = 1
    /\ returned.results[1].attempts = 0
    /\ returned.results[2].statusCode = 200
    /\ returned.results[3].attempts = 0

\* the destinations of the current call whose shouldSend threw on the payload,
\* and those whose transformPayload throws on it once the filter let it pass
FilterThrew ==
    {d \in Range(Subs) : webhooks[d].shouldSend
                         /\ current.payload.keep = "throws"}
TransformThrows ==
    {d \in Range(Subs) : /\ ShouldSend(webhooks[d], current.payload) = "true"
                         /\ webhooks[d].transformPayload
                         /\ current.payload.bad}

\* C14: when a destination's shouldSend or transformPayload throws on the
\* event, the result handleEvent returns in that destination's position is a
\* failed one (success = false), on the direct path and on the rate-limited
\* path alike, and every other destination on the direct path still gets the
\* result of its own delivery.
C14_UserExceptionFailsResult ==
    (Called /\ returned.done) =>
        \A i \in 1..Len(Subs) :
            /\ Subs[i] \in FilterThrew \cup TransformThrows =>
                 ~returned.results[i].success
            /\ Subs[i] \in Direct \ TransformThrows =>
                 returned.results[i] = RunOf(Subs[i]).result

\* the send runs, and for a run the attempts its destination is configured
\* to get
Runs == DOMAIN deliveries
Configured(k) ==
    IF webhooks[k[2]].retry.maxAttempts = Undefined
    THEN DefaultMaxAttempts ELSE webhooks[k[2]].retry.maxAttempts
AllFailed(k) == deliveries[k].phase = "returned" /\ deliveries[k].okAt = 0

\* C15: no send run ever makes more attempts than its maxAttempts (3 when not
\* configured), and a run that has returned with none of its attempts
\* succeeding made exactly maxAttempts attempts and returned success = false,
\* attempts = maxAttempts and the error message of its last failed attempt.
C15_ExhaustedAfterMaxAttempts ==
    \A k \in Runs :
        /\ deliveries[k].attempts <= Configured(k)
        /\ deliveries[k].httpCalls <= deliveries[k].attempts
        /\ AllFailed(k) =>
             /\ deliveries[k].attempts = Configured(k)
             /\ ~deliveries[k].result.success
             /\ deliveries[k].result.attempts = Configured(k)
             /\ deliveries[k].result.error = deliveries[k].lastFailure
             /\ deliveries[k].result.webhookUrl = webhooks[k[2]].url

\* C15 witness: the destination with no maxAttempts configured has failed
\* three HTTP calls, the last with status 500, and its run has returned.
C15_Witness ==
    \E k \in Runs :
        /\ k[2] = 2
        /\ AllFailed(k)
        /\ deliveries[k].httpCalls = DefaultMaxAttempts
        /\ deliveries[k].result.error =
             SendOnceMessage([ok |-> FALSE, status |-> 500,
                              message |-> "Request failed with status code 500"])

\* C16: a send run one of whose HTTP calls succeeded, on attempt k, has
\* returned and stays as it was then: k attempts, k HTTP calls (the first
\* k - 1 failed, each followed by one wait), and a result with success = true
\* and the status of the response.
C16_NoAttemptAfterSuccess ==
    \A k \in Runs :
        deliveries[k].okAt > 0 =>
            /\ deliveries[k].phase = "returned"
            /\ deliveries[k].okAt <= Configured(k)
            /\ deliveries[k].attempts = deliveries[k].okAt
            /\ deliveries[k].httpCalls = deliveries[k].okAt
            /\ Len(deliveries[k].waits) = deliveries[k].okAt - 1
            /\ deliveries[k].result.success
            /\ deliveries[k].result.statusCode = 200

\* C16 witness: a run succeeded on its second attempt although its
\* destination is configured for three, and time has passed since.
C16_Witness ==
    \E k \in Runs :
        /\ deliveries[k].okAt = 2
        /\ Configured(k) > 2
        /\ deliveries[k].httpCalls = 2
        /\ deliveries[k].result.success
        /\ returned.done
        /\ \E i \in 1..Len(sent) : sent[i].age >= windowMs

\* the send runs that have returned after one of their HTTP calls succeeded
Succeeded == {k \in Runs : deliveries[k].okAt > 0}

\* C17 as stated: the result of a run whose HTTP call succeeded on attempt
\* number k has attempts = k.
C17_AttemptsIsSuccessfulAttempt ==
    \A k \in Succeeded : deliveries[k].result.attempts = deliveries[k].okAt

\* C17, amended: the result of a run whose HTTP call succeeded has
\* attempts = 1, whatever the number k of the attempt that succeeded; the
\* number of attempts made is reported on failure only.
C17_SuccessReportsOneAttempt ==
    \A k \in Runs :
        /\ k \in Succeeded => deliveries[k].result.attempts = 1
        /\ AllFailed(k) =>
             deliveries[k].result.attempts = deliveries[k].attempts

\* C17 witness: a run succeeded on its third attempt and reports attempts = 1.
C17_Witness ==
    \E k \in Succeeded :
        /\ deliveries[k].okAt = 3
        /\ deliveries[k].attempts = 3
        /\ deliveries[k].result.attempts = 1

\* the delayMs a run's destination is configured with
ConfiguredDelay(k) ==
    IF webhooks[k[2]].retry.delayMs = Undefined
    THEN DefaultDelayMs ELSE webhooks[k[2]].retry.delayMs

C19_SendNeverThrows ==
    \A k \in Runs :
        /\ deliveries[k].phase \in {"http", "backoff", "returned"}
        /\ AllFailed(k) =>
             /\ ~deliveries[k].result.success
             /\ deliveries[k].result.error # "undefined"
             /\ deliveries[k].result.error = deliveries[k].lastFailure

\* C19 witness: the single HTTP call of a destination with maxAttempts = 1
\* failed with a network error and the run returned a failure result.
C19_Witness ==
    \E k \in Runs :
        /\ Configured(k) = 1
        /\ AllFailed(k)
        /\ deliveries[k].httpCalls = 1
        /\ deliveries[k].result.error =
             SendOnceMessage([ok |-> FALSE, status |-> 0,
                              message |-> "Network Error"])
        /\ ~deliveries[k].result.success

\* C20: for one event and one destination with a transformPayload function,
\* the function is invoked at most once while the delivery goes on and exactly
\* once by the time it has returned, however many attempts the retry loop
\* makes, on the direct path and through the rate limiter.
C20_TransformOncePerEvent ==
    \A k \in Runs :
        webhooks[k[2]].transformPayload =>
            /\ deliveries[k].transforms <= 1
            /\ deliveries[k].phase = "returned" => deliveries[k].transforms = 1

\* where the rate-limited destination stands in the results of the call
LimitedPos == {i \in 1..Len(Subs) : Subs[i] = LimitedDest}
\* processWebhook handed the event of the call to the destination's handler
HandedToLimiter ==
    /\ LimitedDest \notin FilterThrew
    /\ waitsOn[LimitedDest].what \in {"none", "addEvent", "flush"}

\* C40 as stated: for the destination with rateLimit the result handleEvent
\* returns is always success = true with attempts = 0.
C40_LimitedAlwaysReportsSkipped ==
    (Called /\ returned.done) =>
        \A i \in LimitedPos :
            /\ returned.results[i].success
            /\ returned.results[i].attempts = 0

\* C40, amended: the result for the destination with rateLimit is the fixed
\* {success: true, webhookUrl, attempts: 0}, without status code or error,
\* whenever its shouldSend did not throw and its handler was in the plugin's
\* map, whether the event was sent at once, queued or filtered out, and also
\* when its delivery has failed; when shouldSend threw the result is a failed
\* one with attempts = 1, and once the plugin is destroyed the destination is
\* sent to directly and the result is the one of its own delivery.
C40_HandedToLimiterReportsSkipped ==
    (Called /\ returned.done) =>
        \A i \in LimitedPos :
            LET res == returned.results[i]
            IN  /\ HandedToLimiter =>
                     res = Result(TRUE, webhooks[LimitedDest].url, 0,
                                  "undefined", 0)
                /\ LimitedDest \in FilterThrew =>
                     res = Result(FALSE, "unknown", 0, ShouldSendMessage, 1)
                /\ waitsOn[LimitedDest].what = "send" =>
                     /\ destroyed
                     /\ res = RunOf(LimitedDest).result
                     /\ res.attempts >= 1

\* C40 witness: the call has returned success = true with attempts = 0 for the
\* rate-limited destination although its delivery, made at once, has failed
\* on its only attempt.
C40_Witness ==
    /\ Called /\ returned.done
    /\ LimitedPos # {}
    /\ HandedToLimiter
    /\ HasRun(LimitedDest)
    /\ RunOf(LimitedDest).phase = "returned"
    /\ ~RunOf(LimitedDest).result.success
    /\ RunOf(LimitedDest).result.attempts = 1
    /\ \A i \in LimitedPos : returned.results[i].attempts = 0

\* =====================================================================
\* Part 3a: the payload handleEvent builds
\* =====================================================================

\* the rate limiter and the dispatcher before anything happened
AtRest ==
    /\ rateLimit = NoLimit
    /\ queue = <<>>
    /\ requestTimestamps = <<>>
    /\ flushTimer = Null
    /\ timers = {}
    /\ calls = {}
    /\ destroyed = FALSE
    /\ admitted = <<>>
    /\ sent = <<>>
    /\ everQueued = {}
    /\ burst = TRUE
    /\ NoCallYet

\* the fields a caller may put in payload: Partial<BaseEventPayload>, which
\* has an index signature; and the values it may give them
PayloadKeys == {"timestamp", "eventType", "sessionId", "userId", "extra"}
PayloadValues ==
    [timestamp |-> {"1999-12-31T23:59:59.000Z", "undefined"},
     eventType |-> {"session.error"},
     sessionId |-> {"test"},
     userId |-> {"u1"},
     extra |-> {"x"}]
Payloads ==
    UNION {[keys -> UNION {PayloadValues[k] : k \in keys}] :
              keys \in SUBSET PayloadKeys}
WellTyped(p) == \A k \in DOMAIN p : p[k] \in PayloadValues[k]

\* { timestamp: new Date().toISOString(), eventType, ...payload }: a key of
\* payload, even one holding undefined, replaces the one written before it
FullPayload(eventType, p, now) ==
    [k \in {"timestamp", "eventType"} \cup DOMAIN p |->
        IF k \in DOMAIN p THEN p[k]
        ELSE IF k = "timestamp" THEN now ELSE eventType]

InitPayload == AtRest /\ NothingElse

\* handleEvent(eventType, payload) builds fullPayload at time now
BuildPayload ==
    /\ \E eventType \in {"session.idle", "session.created"},
          p \in {q \in Payloads : WellTyped(q)}, now \in Stamps :
         built' = [eventType |-> eventType, payload |-> p, now |-> now,
                   fullPayload |-> FullPayload(eventType, p, now)]
    /\ UNCHANGED <<bvars, dvars, mvars, index>>

NextPayload == BuildPayload

SpecPayload == InitPayload /\ [][NextPayload]_built

\* C21: the payload handleEvent(eventType, p) hands on has eventType equal to
\* the argument and the timestamp of the dispatch, whatever fields p has, and
\* every other field of p unchanged, and no further field.
C21_StampedAtDispatch ==
    built # <<>> =>
        /\ built.fullPayload.eventType = built.eventType
        /\ built.fullPayload.timestamp = built.now
        /\ DOMAIN built.fullPayload
             = DOMAIN built.payload \cup {"timestamp", "eventType"}
        /\ \A k \in DOMAIN built.payload \ {"timestamp", "eventType"} :
             built.fullPayload[k] = built.payload[k]

\* =====================================================================
\* Part 3b: the plugin's index of batch handlers
\* =====================================================================
MaxIndexed == 3         \* events processed through the index

\* a url and an event name are strings: sequences of characters, of which
\* only ':' and ',' matter to the key
IndexUrls == {<<"https", ":", "//a">>, <<"https", ":", "//b">>}
IndexEvents == {<<<<"session.idle">>>>,
                <<<<"session.idle">>, <<"session.error">>>>,
                <<<<"session.error">>>>}

RECURSIVE JoinComma(_)
\* events.join(',')
JoinComma(events) ==
    IF events = <<>> THEN <<>>
    ELSE IF Len(events) = 1 THEN events[1]
         ELSE events[1] \o <<",">> \o JoinComma(Tail(events))

\* getWebhookKey: `${webhook.url}:${webhook.events.join(',')}`
GetWebhookKey(w) == w.url \o <<":">> \o JoinComma(w.events)

\* the rate-limited destinations a plugin may be configured with: two
\* configurations that differ at least in their transformPayload
IndexConfigs ==
    {<<[url |-> u1, events |-> e1, transformPayload |-> "t1",
        rateLimit |-> [maxRequests |-> m1, windowMs |-> WindowMs]],
       [url |-> u2, events |-> e2, transformPayload |-> "t2",
        rateLimit |-> [maxRequests |-> m2, windowMs |-> WindowMs]]>> :
        u1 \in IndexUrls, u2 \in IndexUrls,
        e1 \in IndexEvents, e2 \in IndexEvents,
        m1 \in 1..MaxRequestsMax, m2 \in 1..MaxRequestsMax}

\* new BatchHandler(webhook, sendCallback): its config and callback are those
\* of destination d
NewBatchHandler(d) == [owner |-> d, requestTimestamps |-> 0, queue |-> <<>>]

RECURSIVE IndexWebhooks(_, _)
\* indexWebhooks: this.batchHandlers.set(key, new BatchHandler(...)) for each
\* webhook in turn, up to the d-th; Map.set replaces an entry with the same key
IndexWebhooks(ws, d) ==
    IF d = 0 THEN <<>>
    ELSE (GetWebhookKey(ws[d]) :> NewBatchHandler(d)) @@ IndexWebhooks(ws, d - 1)

InitIndex ==
    /\ AtRest
    /\ options = [directory |-> [given |-> FALSE, segments |-> <<>>],
                  idleDelaySecs |-> 0]
    /\ NoEventYet
    /\ built = <<>>
    /\ \E ws \in IndexConfigs :
         index = [webhooks |-> ws,
                  batchHandlers |-> IndexWebhooks(ws, Len(ws)),
                  log |-> <<>>]

\* processWebhook(webhook d, payload): batchHandlers.get(getWebhookKey(webhook))
\* and addEvent on it, all inside one rate window: the handler sends with its
\* own config and callback while it has capacity, and queues otherwise
ProcessThroughIndex ==
    /\ Len(index.log) < MaxIndexed
    /\ \E d \in 1..Len(index.webhooks) :
         LET key == GetWebhookKey(index.webhooks[d])
             h == index.batchHandlers[key]
             limit == index.webhooks[h.owner].rateLimit.maxRequests
             event == Len(index.log) + 1
             direct == h.requestTimestamps < limit /\ h.queue = <<>>
         IN  index' =
               [index EXCEPT
                  !.batchHandlers[key] =
                      IF direct
                      THEN [h EXCEPT !.requestTimestamps = @ + 1]
                      ELSE [h EXCEPT !.queue = Append(@, event)],
                  !.log = Append(@,
                      [event |-> event, dest |-> d, handler |-> h.owner,
                       queued |-> ~direct,
                       url |-> index.webhooks[h.owner].url,
                       transformPayload |->
                           index.webhooks[h.owner].transformPayload])]
    /\ UNCHANGED <<bvars, dvars, mvars, built>>

NextIndex == ProcessThroughIndex

SpecIndex == InitIndex /\ [][NextIndex]_index

\* the events of destination d that its handler let through at once
SentAtOnce(d) ==
    {i \in 1..Len(index.log) : index.log[i].dest = d /\ ~index.log[i].queued}

\* C22: two distinct rate-limited destinations have separate rate-window
\* state whatever their url and events: an event processed for destination d
\* goes through d's own handler, is sent with d's url and transformPayload,
\* and counts against d's own maxRequests only.
C22_SeparateRateWindows ==
    index # <<>> =>
        /\ \A i \in 1..Len(index.log) :
             /\ index.log[i].handler = index.log[i].dest
             /\ index.log[i].transformPayload
                  = index.webhooks[index.log[i].dest].transformPayload
             /\ index.log[i].url = index.webhooks[index.log[i].dest].url
        /\ \A d \in 1..Len(index.webhooks) :
             Cardinality(SentAtOnce(d))
               = Min(index.webhooks[d].rateLimit.maxRequests,
                     Cardinality({i \in 1..Len(index.log) :
                                     index.log[i].dest = d}))

\* =====================================================================
\* Part 3c: AgentCompletionMiddleware, the per-session accumulator
\* =====================================================================
MaxInputs == 4          \* message.updated and message.part.updated events
MaxIdles == 2           \* session.idle events
MaxHandled == 6         \* events of all three kinds

SessionIds == {"s1", "s2"}
\* m1 is a message of the assistant, m2 one of the user
MessageUpdatedInputs ==
    {[sessionID |-> s, id |-> "m1", role |-> "assistant"] : s \in SessionIds}
      \cup {[sessionID |-> "s1", id |-> "m2", role |-> "user"]}
\* p1 and p2 are text parts of m1, p3 is a tool part, p4 a text part of m2
PartInputs ==
    {[sessionID |-> s, messageID |-> "m1", id |-> "p1", type |-> "text"] :
        s \in SessionIds}
      \cup {[sessionID |-> "s1", messageID |-> "m1", id |-> "p2", type |-> "text"],
            [sessionID |-> "s1", messageID |-> "m1", id |-> "p3", type |-> "tool"],
            [sessionID |-> "s1", messageID |-> "m2", id |-> "p4", type |-> "text"]}
LookupOutcomes == {"title", "no title", "throws"}
\* context.directory: '', '/' and '/home/user/my-project'
Directories == {[given |-> FALSE, segments |-> <<>>],
                [given |-> TRUE, segments |-> <<>>],
                [given |-> TRUE, segments |-> <<"home", "user", "my-project">>]}

Falsy(id) == id \in {"", "undefined"}

\* { parts: new Map(), assistantMessageIds: new Set() }, the obj-th state
\* object the middleware creates
NewState(obj) ==
    [obj |-> obj, parts |-> <<>>, assistantMessageIds |-> {},
     lastMessageId |-> "undefined", lastAssistantInfo |-> "undefined"]

Has(s) == s \in DOMAIN sessions

\* if (!this.sessions.has(sessionId)) this.sessions.set(sessionId, {...})
WithState(s) ==
    IF Has(s) THEN sessions ELSE sessions @@ (s :> NewState(counts.objects + 1))

\* the mutant of MapSet: a known key is taken out and goes last again
MapSetMovesLast(parts, id, text) ==
    Append(SelectSeq(parts, LAMBDA e : e.id # id), [id |-> id, text |-> text])
\* Map.set: a known key keeps its place, a new one goes last
MapSet(parts, id, text) ==
    IF \E i \in 1..Len(parts) : parts[i].id = id
    THEN [i \in 1..Len(parts) |->
            IF parts[i].id = id THEN [id |-> id, text |-> text] ELSE parts[i]]
    ELSE Append(parts, [id |-> id, text |-> text])

\* Array.from(state.parts.values())
Values(parts) == [i \in 1..Len(parts) |-> parts[i].text]

\* how many times the state of s has had a text for part id
Written(s, id) ==
    IF Has(s) /\ \E i \in 1..Len(sessions[s].parts) : sessions[s].parts[i].id = id
    THEN (CHOOSE e \in Range(sessions[s].parts) : e.id = id).text.rev
    ELSE 0

\* the text a part event carries: it says where it arrived, whether its
\* message was registered then, and which revision of the part it is
PartText(part) ==
    [sessionId |-> part.sessionID, messageId |-> part.messageID,
     type |-> part.type,
     registered |-> /\ Has(part.sessionID)
                    /\ part.messageID
                         \in sessions[part.sessionID].assistantMessageIds,
     obj |-> WithState(part.sessionID)[part.sessionID].obj,
     rev |-> Written(part.sessionID, part.id) + 1]

\* the mutant of Tracked: a part is kept whatever its message
TrackedWhateverMessage(state, messageId) == TRUE
\* if (!state.assistantMessageIds.has(messageId)) return
Tracked(state, messageId) == messageId \in state.assistantMessageIds

\* the sessions map after handleMessagePartUpdated(part)
AfterPart(part) ==
    IF part.type # "text" THEN sessions
    ELSE IF Falsy(part.sessionID) \/ Falsy(part.messageID) THEN sessions
    ELSE LET s == part.sessionID
             with == WithState(s)
         IN  IF ~Tracked(with[s], part.messageID) THEN with
             ELSE [with EXCEPT
                     ![s].parts = MapSet(@, part.id, PartText(part)),
                     ![s].lastMessageId = part.messageID]

\* the sessions map after handleMessageUpdated(info)
AfterMessage(info) ==
    IF info.role # "assistant" THEN sessions
    ELSE IF Falsy(info.sessionID) \/ Falsy(info.id) THEN sessions
    ELSE LET s == info.sessionID
         IN  [WithState(s) EXCEPT
                ![s].assistantMessageIds = @ \cup {info.id},
                ![s].lastAssistantInfo = info.id]

\* ---- handleSessionIdle ----
\* the mutant of NothingToReport: only an unknown session has nothing
NothingToReportIfUnknown(s) == ~Has(s)
\* if (!state || state.parts.size === 0) return
NothingToReport(s) == ~Has(s) \/ Len(sessions[s].parts) = 0

\* the handling that the idle-th session.idle begins for s, if any: it holds
\* the state object it found in the map
Begun(s, idle) ==
    IF Falsy(s) THEN handlings
    ELSE IF NothingToReport(s) THEN handlings
    ELSE handlings @@
           (idle :> [sessionId |-> s, obj |-> sessions[s].obj,
                     phase |-> "title", detached |-> FALSE,
                     state |-> NewState(sessions[s].obj)])

\* the state object a handling holds: the one in the map while it is there,
\* and what it was when it left the map afterwards
StateOf(h) == IF h.detached THEN h.state ELSE sessions[h.sessionId]

\* the handlings once the state objects of the sessions in gone have left the
\* map: they keep their objects
Detached(hs, gone) ==
    [i \in DOMAIN hs |->
        IF hs[i].sessionId \in gone /\ ~hs[i].detached
        THEN [hs[i] EXCEPT !.detached = TRUE, !.state = sessions[hs[i].sessionId]]
        ELSE hs[i]]

\* path.basename(directory)
Basename(directory) ==
    IF directory.segments = <<>> THEN ""
    ELSE directory.segments[Len(directory.segments)]

\* the mutant of SessionTitle: no fallback to the directory
SessionTitleOrId(sessionId, outcome) ==
    IF outcome = "title" THEN "Session Title" ELSE sessionId
\* getSessionTitle once the lookup has settled
SessionTitle(sessionId, outcome) ==
    IF outcome = "title" THEN "Session Title"
    ELSE IF options.directory.given THEN Basename(options.directory)
         ELSE sessionId

\* handleMessageUpdated for one of these inputs
MessageUpdatedStep(inputs) ==
    /\ counts.inputs < MaxInputs
    /\ counts.inputs + counts.idles < MaxHandled
    /\ \E info \in inputs :
         /\ sessions' = AfterMessage(info)
         /\ lastStep' = [kind |-> "message.updated", sessionId |-> info.sessionID]
    /\ counts' = [counts EXCEPT
                    !.inputs = @ + 1,
                    !.objects = @ + Cardinality(DOMAIN sessions' \ DOMAIN sessions)]
    /\ UNCHANGED <<options, handlings, emitted>>
    /\ UNCHANGED <<bvars, dvars, built, index>>

\* handleMessagePartUpdated for one of these inputs
MessagePartUpdatedStep(inputs) ==
    /\ counts.inputs < MaxInputs
    /\ counts.inputs + counts.idles < MaxHandled
    /\ \E part \in inputs :
         /\ sessions' = AfterPart(part)
         /\ lastStep' = [kind |-> "message.part.updated",
                         sessionId |-> part.sessionID]
    /\ counts' = [counts EXCEPT
                    !.inputs = @ + 1,
                    !.objects = @ + Cardinality(DOMAIN sessions' \ DOMAIN sessions)]
    /\ UNCHANGED <<options, handlings, emitted>>
    /\ UNCHANGED <<bvars, dvars, built, index>>

\* handleEvent({type: 'session.idle'}) for a session of S, up to its first await
SessionIdleOf(S) ==
    /\ counts.idles < MaxIdles
    /\ counts.inputs + counts.idles < MaxHandled
    /\ \E s \in S :
         /\ lastStep' = [kind |-> "session.idle", sessionId |-> s]
         /\ handlings' = Begun(s, counts.idles + 1)
    /\ counts' = [counts EXCEPT !.idles = @ + 1]
    /\ UNCHANGED <<options, sessions, idleTimers, emitted>>
    /\ UNCHANGED <<bvars, dvars, built, index>>

\* the lookup of handling i settles: the payload is built from the state
\* object the handling holds and onComplete is called with it
TitleSettles ==
    /\ \E i \in DOMAIN handlings, outcome \in LookupOutcomes :
         LET h == handlings[i]
             state == StateOf(h)
         IN  /\ h.phase = "title"
             /\ emitted' = Append(emitted,
                    [idle |-> i, obj |-> h.obj, sessionId |-> h.sessionId,
                     sessionTitle |-> SessionTitle(h.sessionId, outcome),
                     messageContent |-> Values(state.parts),
                     messageId |-> state.lastMessageId,
                     info |-> state.lastAssistantInfo])
             /\ handlings' = [handlings EXCEPT ![i].phase = "callback"]
             /\ lastStep' = [kind |-> outcome, sessionId |-> h.sessionId]
    /\ UNCHANGED <<options, sessions, idleTimers, counts>>
    /\ UNCHANGED <<bvars, dvars, built, index>>

\* the mutant of Deleted: this.sessions.clear()
DeletedAll(s) == <<>>
\* the sessions map after this.sessions.delete(s)
Deleted(s) == [t \in DOMAIN sessions \ {s} |-> sessions[t]]

\* does handleEvent reject when onComplete threw: the catch block only logs
Rejects(threw) == FALSE

\* onComplete of handling i settles: catch, then finally
\* this.sessions.delete(sessionId), and handleEvent settles
CallbackSettles ==
    /\ \E i \in DOMAIN handlings, threw \in BOOLEAN :
         LET h == handlings[i]
             gone == DOMAIN sessions \ DOMAIN Deleted(h.sessionId)
         IN  /\ h.phase = "callback"
             /\ sessions' = Deleted(h.sessionId)
             /\ handlings' = [j \in DOMAIN handlings \ {i} |->
                                 Detached(handlings, gone)[j]]
             /\ counts' = [counts EXCEPT
                             !.rejected = @ + (IF Rejects(threw) THEN 1 ELSE 0)]
             /\ lastStep' = [kind |-> IF threw THEN "threw" ELSE "completed",
                             sessionId |-> h.sessionId]
    /\ UNCHANGED <<options, idleTimers, emitted>>
    /\ UNCHANGED <<bvars, dvars, built, index>>

\* handleEvent({type: 'message.updated'}) for a session of S
MessageUpdatedOf(S) ==
    /\ MessageUpdatedStep({i \in MessageUpdatedInputs : i.sessionID \in S})
    /\ UNCHANGED idleTimers

\* handleEvent({type: 'message.part.updated'}) for a session of S
MessagePartUpdatedOf(S) ==
    /\ MessagePartUpdatedStep({q \in PartInputs : q.sessionID \in S})
    /\ UNCHANGED idleTimers

MessageUpdated == MessageUpdatedOf(SessionIds)

MessagePartUpdated == MessagePartUpdatedOf(SessionIds)

SessionIdle == SessionIdleOf(SessionIds)

\* a middleware constructed with directory and idleDelaySecs from these sets
Constructed(directories, delays) ==
    /\ AtRest
    /\ options \in [directory : directories, idleDelaySecs : delays]
    /\ NoEventYet
    /\ built = <<>>
    /\ index = <<>>

ProjectDirectory == [given |-> TRUE, segments |-> <<"home", "user", "my-project">>]

InitMiddleware == Constructed({ProjectDirectory}, {0})

NextMiddleware ==
    \/ MessageUpdated
    \/ MessagePartUpdated
    \/ SessionIdle
    \/ TitleSettles
    \/ CallbackSettles

SpecMiddleware == InitMiddleware /\ [][NextMiddleware]_mvars

\* the titles of one session's completions, for every working directory
InitTitle == Constructed(Directories, {0})

NextTitle ==
    \/ MessageUpdatedOf({"s2"})
    \/ MessagePartUpdatedOf({"s2"})
    \/ SessionIdleOf({"s2"})
    \/ TitleSettles
    \/ CallbackSettles

SpecTitle == InitTitle /\ [][NextTitle]_mvars

\* ---------------------------------------------------------------------
\* Claims about the accumulator
\* ---------------------------------------------------------------------
\* the text of a text part of session s whose message the session's state
\* had registered as an assistant message when the part arrived
FromRegistered(text, s) ==
    /\ text.type = "text"
    /\ text.sessionId = s
    /\ text.registered

\* C23: a session's accumulated parts hold only text of message-part events
\* whose messageId an assistant message-updated event of that session had
\* registered when the part arrived; every other part is discarded, so a
\* completion is never emitted from discarded parts only: each emitted content
\* is non-empty and made of such text.
C23_OnlyRegisteredParts ==
    /\ \A s \in DOMAIN sessions :
         \A e \in Range(sessions[s].parts) : FromRegistered(e.text, s)
    /\ \A i \in DOMAIN handlings :
         /\ Len(StateOf(handlings[i]).parts) > 0
         /\ \A e \in Range(StateOf(handlings[i]).parts) :
              FromRegistered(e.text, handlings[i].sessionId)
    /\ \A n \in 1..Len(emitted) :
         /\ Len(emitted[n].messageContent) > 0
         /\ \A text \in Range(emitted[n].messageContent) :
              FromRegistered(text, emitted[n].sessionId)

\* session s1 exists only because a text part of an unregistered message
\* arrived, and its session.idle has just emitted nothing
C23_Witness ==
    /\ Has("s1")
    /\ sessions["s1"].assistantMessageIds = {}
    /\ sessions["s1"].parts = <<>>
    /\ lastStep = [kind |-> "session.idle", sessionId |-> "s1"]
    /\ handlings = <<>>
    /\ emitted = <<>>

\* the onComplete invocations made from the obj-th state object, that is for
\* the accumulation cycle of that object
EmissionsOf(obj) == {n \in 1..Len(emitted) : emitted[n].obj = obj}

\* C24: an accumulation cycle of a session produces one invocation of the
\* completion callback when the session goes idle with parts accumulated and
\* never more than one, also when a second session.idle for the session
\* arrives while the first is awaiting the title lookup or the callback.
C24_OneEmissionPerCycle ==
    /\ \A obj \in 1..counts.objects : Cardinality(EmissionsOf(obj)) <= 1
    /\ \A i \in DOMAIN handlings :
         handlings[i].phase = "callback" =>
             \E n \in 1..Len(emitted) : emitted[n].idle = i

\* the accumulator state of session t, present or not
StateIn(map, t) == IF t \in DOMAIN map THEN <<map[t]>> ELSE <<>>

\* C25: an event for one session never changes another session's accumulator
\* state, and every completion carries text of its own session only: with text
\* accumulated under s1 and s2, the idle of s1 emits s1's text and leaves
\* s2's state as it was, and the later idle of s2 emits s2's text.
C25_SessionsIsolated ==
    [][/\ \A t \in SessionIds \ {lastStep'.sessionId} :
            StateIn(sessions', t) = StateIn(sessions, t)
       /\ \A n \in 1..Len(emitted') :
            \A text \in Range(emitted'[n].messageContent) :
                text.sessionId = emitted'[n].sessionId]_mvars

\* s2 accumulated first and s1 after it; s1 went idle and emitted first, and
\* the idle of s2 then emitted from the state s2 had all along
C25_Witness ==
    /\ Len(emitted) = 2
    /\ emitted[1].sessionId = "s1" /\ emitted[1].obj = 2
    /\ emitted[2].sessionId = "s2" /\ emitted[2].obj = 1
    /\ lastStep = [kind |-> "completed", sessionId |-> "s2"]
    /\ sessions = <<>>

\* C26: once the callback of a handled session.idle has settled, fulfilled or
\* thrown, the session's accumulator state is gone and handleEvent has not
\* rejected; and an emission is made from the state the session has in the map
\* at that time, that is from text accumulated since the last clear only.
C26_ClearedAfterHandling ==
    [][/\ lastStep'.kind \in {"completed", "threw"} =>
            /\ ~(lastStep'.sessionId \in DOMAIN sessions')
            /\ counts'.rejected = counts.rejected
       /\ Len(emitted') > Len(emitted) =>
            LET e == emitted'[Len(emitted')]
            IN  /\ e.sessionId \in DOMAIN sessions
                /\ sessions[e.sessionId].obj = e.obj]_mvars

\* C27: a session.idle for a session with no accumulated parts (unknown, or
\* with registrations, discarded parts or non-text parts only) invokes no
\* completion callback, begins no handling that could invoke one, and leaves
\* the accumulator state unchanged.
C27_IdleWithoutPartsIsNoOp ==
    [][(/\ counts'.idles = counts.idles + 1
        /\ \/ ~Has(lastStep'.sessionId)
           \/ sessions[lastStep'.sessionId].parts = <<>>)
       => /\ sessions' = sessions
          /\ emitted' = emitted
          /\ handlings' = handlings]_mvars

\* s2 has a registered assistant message and no part, and its session.idle
\* has just done nothing
C27_Witness ==
    /\ Has("s2")
    /\ sessions["s2"].assistantMessageIds = {"m1"}
    /\ sessions["s2"].parts = <<>>
    /\ lastStep = [kind |-> "session.idle", sessionId |-> "s2"]
    /\ handlings = <<>>
    /\ emitted = <<>>

\* the handlings whose lookup settles in this step
LookupSettled == {i \in DOMAIN handlings : /\ handlings[i].phase = "title"
                                           /\ i \in DOMAIN handlings'
                                           /\ handlings'[i].phase = "callback"}

Cleared == DOMAIN sessions \ DOMAIN sessions'

\* C36: every text accepted into a session's accumulator is part of the
\* messageContent of a completion of that session: when a handling clears the
\* session's state, a completion made from that state object has carried the
\* texts the state holds at that time, those that arrived while the handling
\* was awaiting the lookup or the callback included.
C36_AcceptedTextIsEmitted ==
    [][\A s \in Cleared :
          \E n \in 1..Len(emitted) :
              /\ emitted[n].sessionId = s
              /\ emitted[n].obj = sessions[s].obj
              /\ emitted[n].messageContent = Values(sessions[s].parts)]_mvars

\* C39: after a completion of a session is emitted, a text part of that
\* session for a message registered before the emission is discarded unless
\* an assistant message-updated event for the message arrives first: when the
\* event right after the emission is such a part, the parts the session
\* holds stay as they were.
C39_PartAfterEmissionDiscarded ==
    [][(/\ lastStep.kind \in LookupOutcomes
        /\ lastStep'.kind = "message.part.updated"
        /\ lastStep'.sessionId = lastStep.sessionId
        /\ Has(lastStep.sessionId))
       => sessions'[lastStep.sessionId].parts
            = sessions[lastStep.sessionId].parts]_mvars

\* =====================================================================
\* Part 3d: the idle delay of the middleware (idleDelaySecs)
\* =====================================================================
IdleDelaySecs == 2      \* the non-zero delay, in seconds

\* the timers of session s that are still to fire
PendingOf(s) ==
    {i \in DOMAIN idleTimers : /\ idleTimers[i].sessionId = s
                               /\ idleTimers[i].status = "pending"}

\* the pending timers of session s end as status
Closed(s, status) ==
    [i \in DOMAIN idleTimers |->
        IF i \in PendingOf(s) THEN [idleTimers[i] EXCEPT !.status = status]
        ELSE idleTimers[i]]

\* the mutant of ActivityCancels: activity leaves the timer running
ActivityIgnored(s) == idleTimers
\* activity for session s cancels its pending emission
ActivityCancels(s) == Closed(s, "cancelled")

\* the mutant of Restarted: the new timer goes on with what was left of the
\* delay of the one it replaces
RestartedWhereItWas(s) ==
    Append(Closed(s, "reset"),
           [sessionId |-> s,
            remaining |-> IF PendingOf(s) = {} THEN options.idleDelaySecs
                          ELSE idleTimers[CHOOSE i \in PendingOf(s) : TRUE].remaining,
            status |-> "pending",
            had |-> IF Has(s) THEN Len(sessions[s].parts) ELSE 0])
\* a session.idle of s (re)starts the timer of s at the full delay; had is
\* the number of parts s had accumulated by then
Restarted(s) ==
    Append(Closed(s, "reset"),
           [sessionId |-> s, remaining |-> options.idleDelaySecs,
            status |-> "pending",
            had |-> IF Has(s) THEN Len(sessions[s].parts) ELSE 0])

\* the mutant of Due: a timer may fire before its delay has elapsed
DueAnyTime(timer) == timer.status = "pending"
\* a timer fires when its delay has elapsed
Due(timer) == timer.status = "pending" /\ timer.remaining = 0

\* the activity of the agent in session s1: its messages and their text
\* parts; session s2 only goes idle
Activity(inputs) ==
    {i \in inputs :
        /\ i.sessionID = "s1"
        /\ IF "role" \in DOMAIN i THEN i.role = "assistant"
           ELSE i.messageID = "m1" /\ i.type = "text"}

DelayedMessageUpdated ==
    /\ MessageUpdatedStep(Activity(MessageUpdatedInputs))
    /\ idleTimers' = ActivityCancels(lastStep'.sessionId)

DelayedMessagePartUpdated ==
    /\ MessagePartUpdatedStep(Activity(PartInputs))
    /\ idleTimers' = ActivityCancels(lastStep'.sessionId)

\* session.idle with a non-zero idleDelaySecs: no emission, the timer of the
\* session is (re)started
DelayedSessionIdle ==
    /\ counts.idles < MaxIdles
    /\ counts.inputs + counts.idles < MaxHandled
    /\ \E s \in SessionIds :
         /\ lastStep' = [kind |-> "session.idle", sessionId |-> s]
         /\ idleTimers' = Restarted(s)
    /\ counts' = [counts EXCEPT !.idles = @ + 1]
    /\ UNCHANGED <<options, sessions, handlings, emitted>>
    /\ UNCHANGED <<bvars, dvars, built, index>>

\* the timer of the i-th session.idle fires: the emission of handleSessionIdle
\* begins
IdleTimerFires ==
    /\ \E i \in DOMAIN idleTimers :
         /\ Due(idleTimers[i])
         /\ idleTimers' = [idleTimers EXCEPT ![i].status = "fired"]
         /\ handlings' = Begun(idleTimers[i].sessionId, i)
         /\ lastStep' = [kind |-> "timer", sessionId |-> idleTimers[i].sessionId]
    /\ UNCHANGED <<options, sessions, emitted, counts>>
    /\ UNCHANGED <<bvars, dvars, built, index>>

\* a second passes while no timer is due
SecondPasses ==
    /\ \E i \in DOMAIN idleTimers : idleTimers[i].status = "pending"
    /\ \A i \in DOMAIN idleTimers :
         idleTimers[i].status = "pending" => idleTimers[i].remaining > 0
    /\ idleTimers' =
         [i \in DOMAIN idleTimers |->
            IF idleTimers[i].status = "pending"
            THEN [idleTimers[i] EXCEPT !.remaining = @ - 1]
            ELSE idleTimers[i]]
    /\ UNCHANGED <<options, sessions, handlings, emitted, counts, lastStep>>
    /\ UNCHANGED <<bvars, dvars, built, index>>

InitIdleDelay == Constructed({ProjectDirectory}, {IdleDelaySecs})

NextIdleDelay ==
    \/ DelayedMessageUpdated
    \/ DelayedMessagePartUpdated
    \/ DelayedSessionIdle
    \/ IdleTimerFires
    \/ SecondPasses
    \/ TitleSettles
    \/ CallbackSettles

SpecIdleDelay == InitIdleDelay /\ [][NextIdleDelay]_mvars

\* ---------------------------------------------------------------------
\* Claims about the idle delay
\* ---------------------------------------------------------------------
\* a second passes in this step
SecondPassed ==
    \E i \in DOMAIN idleTimers : idleTimers'[i].remaining < idleTimers[i].remaining

\* the handlings that begin in this step
BeginsNow == DOMAIN handlings' \ DOMAIN handlings

Retained(state, next) ==
    /\ next.obj = state.obj
    /\ state.assistantMessageIds \subseteq next.assistantMessageIds
    /\ Len(next.parts) >= Len(state.parts)
    /\ \A k \in 1..Len(state.parts) : next.parts[k].id = state.parts[k].id

DestroyMiddleware ==
    /\ counts.destroyed = 0
    /\ sessions' = <<>>
    /\ handlings' = Detached(handlings, DOMAIN sessions)
    /\ counts' = [counts EXCEPT !.destroyed = counts.objects]
    /\ lastStep' = [kind |-> "destroy", sessionId |-> ""]
    /\ UNCHANGED <<options, idleTimers, emitted>>
    /\ UNCHANGED <<bvars, dvars, built, index>>

NextDestroy ==
    \/ MessageUpdated
    \/ MessagePartUpdated
    \/ SessionIdle
    \/ TitleSettles
    \/ CallbackSettles
    \/ DestroyMiddleware

SpecDestroy == InitMiddleware /\ [][NextDestroy]_mvars

\* C32: once destroy() has returned the completion callback is not invoked
\* for state accumulated before it: no callback is made from a state object
\* that existed at the destroy, be it by a handling that was in flight or by a
\* later session.idle.
C32_NoEmissionAfterDestroy ==
    [][Len(emitted') > Len(emitted) =>
           emitted'[Len(emitted')].obj > counts.destroyed]_mvars

\* =====================================================================
\* Part 3f: the parts of one session, streamed by two assistant messages
\* =====================================================================
\* m1 and m3 are messages of the assistant
StreamedMessages ==
    {[sessionID |-> "s1", id |-> m, role |-> "assistant"] : m \in {"m1", "m3"}}
\* p1 and p2 are text parts of m1, p5 is one of m3
StreamedParts ==
    {[sessionID |-> "s1", messageID |-> "m1", id |-> "p1", type |-> "text"],
     [sessionID |-> "s1", messageID |-> "m1", id |-> "p2", type |-> "text"],
     [sessionID |-> "s1", messageID |-> "m3", id |-> "p5", type |-> "text"]}

StreamedMessageUpdated ==
    MessageUpdatedStep(StreamedMessages) /\ UNCHANGED idleTimers

StreamedPartUpdated ==
    MessagePartUpdatedStep(StreamedParts) /\ UNCHANGED idleTimers

NextParts ==
    \/ StreamedMessageUpdated
    \/ StreamedPartUpdated
    \/ SessionIdleOf({"s1"})
    \/ TitleSettles
    \/ CallbackSettles

SpecParts == InitMiddleware /\ [][NextParts]_mvars

\* the ids of the parts, in the order of the Map
Ids(parts) == [k \in 1..Len(parts) |-> parts[k].id]

\* the positions whose text this step wrote
WrittenNow(s) ==
    {k \in 1..Len(sessions'[s].parts) :
        \/ k > Len(sessions[s].parts)
        \/ sessions'[s].parts[k] # sessions[s].parts[k]}

\* C33: a message-part event for a part the session already holds replaces
\* that part's text by the later one, adds no entry and moves none; a new part
\* goes last; lastMessageId is the message of the part written last; and the
\* emitted content is the latest text of each part in first-insertion order,
\* with that messageId.
C33_LastWriteWinsInPlace ==
    [][/\ (counts'.inputs = counts.inputs + 1 /\ Has("s1")) =>
            LET old == sessions["s1"].parts
                new == sessions'["s1"].parts
            IN  /\ SubSeq(Ids(new), 1, Len(old)) = Ids(old)
                /\ Len(new) <= Len(old) + 1
                /\ Cardinality(Range(Ids(new))) = Len(new)
                /\ Cardinality(WrittenNow("s1")) <= 1
                /\ \A k \in WrittenNow("s1") :
                     /\ k <= Len(old) => new[k].text.rev = old[k].text.rev + 1
                     /\ k > Len(old) => new[k].text.rev = 1
                     /\ sessions'["s1"].lastMessageId = new[k].text.messageId
                /\ WrittenNow("s1") = {} =>
                     sessions'["s1"].lastMessageId = sessions["s1"].lastMessageId
       /\ Len(emitted') > Len(emitted) =>
            LET e == emitted'[Len(emitted')]
                state == StateOf(handlings[e.idle])
            IN  /\ Len(e.messageContent) = Len(state.parts)
                /\ \A k \in 1..Len(state.parts) :
                     e.messageContent[k] = state.parts[k].text
                /\ e.messageId = state.lastMessageId]_mvars

\* p1 was written twice and p2 once after it: the completion carries the
\* second text of p1 first, then p2
C33_Witness ==
    /\ Len(emitted) = 1
    /\ Len(emitted[1].messageContent) = 2
    /\ emitted[1].messageContent[1].rev = 2
    /\ emitted[1].messageContent[2].rev = 1
    /\ emitted[1].messageId = "m1"

\* =====================================================================
\* Part 3g: joinMessageParts
\* =====================================================================
MaxParts == 3           \* fragments in one list

\* a string is the sequence of its characters
Whitespace == {" ", "\n"}
Uppercase == {"A", "Z"}
Digits == {"0", "9"}
\* '', ' ', 'a', 'a ', ' a', 'a.', 'a\n', 'A', '#', '9'
Fragments ==
    {<<>>, <<" ">>, <<"a">>, <<"a", " ">>, <<" ", "a">>, <<"a", ".">>,
     <<"a", "\n">>, <<"A">>, <<"#">>, <<"9">>}
PartLists == UNION {[1..n -> Fragments] : n \in 0..MaxParts}

RECURSIVE TrimStart(_)
TrimStart(str) ==
    IF str # <<>> /\ Head(str) \in Whitespace THEN TrimStart(Tail(str)) ELSE str

RECURSIVE TrimEnd(_)
TrimEnd(str) ==
    IF str # <<>> /\ str[Len(str)] \in Whitespace
    THEN TrimEnd(SubSeq(str, 1, Len(str) - 1))
    ELSE str

Trim(str) == TrimStart(TrimEnd(str))

\* /[.!?\n]$/.test(prevText)
EndsCleanly(prevText) ==
    prevText # <<>> /\ prevText[Len(prevText)] \in {".", "!", "?", "\n"}

\* /^[A-Z#*\-\d]/.test(nextText)
StartsNewThought(nextText) ==
    nextText # <<>> /\ Head(nextText) \in Uppercase \cup {"#", "*", "-"} \cup Digits

\* the mutant of NeedsSpace: a space whatever is at the joint
NeedsSpaceAlways(result, part) == TRUE
\* !/\s$/.test(result) && !/^\s/.test(parts[i])
NeedsSpace(result, part) ==
    /\ ~(result # <<>> /\ result[Len(result)] \in Whitespace)
    /\ ~(part # <<>> /\ Head(part) \in Whitespace)

\* one turn of the loop: result after parts[i]
JoinedWith(result, part) ==
    LET prevText == TrimEnd(result)
        nextText == TrimStart(part)
    IN  IF nextText = <<>> THEN result
        ELSE IF EndsCleanly(prevText) \/ StartsNewThought(nextText)
             THEN prevText \o <<"\n", "\n">> \o nextText
             ELSE result \o (IF NeedsSpace(result, part) THEN <<" ">> ELSE <<>>)
                         \o part

RECURSIVE JoinLoop(_, _, _)
\* for (let i = ...; i < parts.length; i++)
JoinLoop(result, parts, i) ==
    IF i > Len(parts) THEN result
    ELSE JoinLoop(JoinedWith(result, parts[i]), parts, i + 1)

JoinMessageParts(parts) ==
    IF Len(parts) = 0 THEN <<>>
    ELSE IF Len(parts) = 1 THEN Trim(parts[1])
    ELSE Trim(JoinLoop(parts[1], parts, 2))

InitJoin == AtRest /\ NothingElse

JoinParts ==
    /\ built = <<>>
    /\ \E parts \in PartLists :
         built' = [parts |-> parts, messageContent |-> JoinMessageParts(parts)]
    /\ UNCHANGED <<bvars, dvars, mvars, index>>

NextJoin == JoinParts

SpecJoin == InitJoin /\ [][NextJoin]_built

\* the fold the claim describes, over the fragments that are not blank
RECURSIVE Folded(_, _)
Folded(acc, rest) ==
    IF rest = <<>> THEN acc
    ELSE LET f == Head(rest)
             prev == TrimEnd(acc)
             next == TrimStart(f)
             double == \/ prev[Len(prev)] \in {".", "!", "?", "\n"}
                       \/ next[1] \in Uppercase \cup {"#", "*", "-"} \cup Digits
             spaced == /\ ~(acc[Len(acc)] \in Whitespace)
                       /\ ~(f[1] \in Whitespace)
         IN  Folded(IF double THEN prev \o <<"\n", "\n">> \o next
                    ELSE IF spaced THEN acc \o <<" ">> \o f
                    ELSE acc \o f,
                    Tail(rest))

NotBlank(f) == Trim(f) # <<>>

\* C34: joinMessageParts folds the fragments left to right and skips the blank
\* ones: a fragment is joined by a double newline when the end-trimmed result
\* so far ends in '.', '!', '?' or newline or the start-trimmed fragment
\* begins with an uppercase letter, '#', '*', '-' or a digit, otherwise by a
\* single space if neither side has whitespace at the joint and by nothing if
\* one has; the result is trimmed; one fragment gives that fragment trimmed
\* and no fragment gives the empty string.
C34_JoinIsTheFold ==
    (built # <<>> /\ "parts" \in DOMAIN built) =>
        LET kept == SelectSeq(built.parts, NotBlank)
        IN  built.messageContent =
                IF kept = <<>> THEN <<>>
                ELSE Trim(Folded(Head(kept), Tail(kept)))

\* 'a.', ' ' and 'a' give 'a.', a double newline and 'a': the blank fragment
\* is skipped and the sentence end asks for a new paragraph
C34_Witness ==
    /\ built # <<>>
    /\ "parts" \in DOMAIN built
    /\ built.parts = << <<"a", ".">>, <<" ">>, <<"a">> >>
    /\ built.messageContent = <<"a", ".", "\n", "\n", "a">>

====
